---- MODULE Spec2Model ----
(***************************************************************************)
(* Model of amin_codes.py: class CDSSStatisticalAnalysis, its Monte Carlo  *)
(* run (simulate_diagnostic_accuracy), its statistics                      *)
(* (calculate_statistics) and its sensitivity report                       *)
(* (sensitivity_analysis).                                                 *)
(*                                                                         *)
(* Numbers.  The program computes in floating point; the model computes   *)
(* in fixed point over the integers, exactly where the claims need it:    *)
(*   data_completeness   tenths            (0.6 is 6, 1.0 is 10)           *)
(*   response_time       tenths of a second (20 s is 200)                  *)
(*   symptom_clarity, workflow_variation   the integers themselves         *)
(*   accuracy (stored, in percent)   millionths of a percent, exact        *)
(*                                   (9.0396 is 9039600, 90 is 90000000)   *)
(* A float that may be NaN is a record [nan, val]; a contribution          *)
(* percentage is the exact fraction num/den.  Standard deviations and      *)
(* correlations need a square root: they are rounded down, the former to   *)
(* 0.01 percentage points, the latter to 1/1000.                           *)
(***************************************************************************)
EXTENDS Integers, Sequences, FiniteSets, TLC

VARIABLES n_iterations, results, ret, twin

vars == <<n_iterations, results, ret, twin>>

\* Longest result list explored under Spec; n_iterations (10000 in the
\* program) ranges over 1..MaxLen.
MaxLen == 2

\* Largest n_iterations explored by the one-run specifications.
MaxTrialIterations == 1

Fields ==
    {"accuracy", "response_time", "data_completeness", "symptom_clarity",
     "workflow_variation"}

Factors ==
    {"data_completeness", "symptom_clarity", "workflow_variation",
     "response_time"}

\* self.results as __init__ leaves it: five empty lists.
EmptyResults == [f \in Fields |-> <<>>]

\* The object __init__ builds, with n standing for n_iterations.
NewAnalysis(n) == [n_iterations |-> n, results |-> EmptyResults]

----------------------------------------------------------------------------
(* Small helpers *)

Min2(a, b) == IF a < b THEN a ELSE b

Abs(a) == IF a < 0 THEN 0 - a ELSE a

SetMin(S) == CHOOSE x \in S : \A y \in S : x <= y

SetMax(S) == CHOOSE x \in S : \A y \in S : y <= x

Extremes(S) == {SetMin(S), SetMax(S)}

RECURSIVE SumFrom(_, _)
SumFrom(a, i) == IF i > Len(a) THEN 0 ELSE a[i] + SumFrom(a, i + 1)

Sum(a) == SumFrom(a, 1)

RECURSIVE ISqrtIn(_, _, _)
ISqrtIn(n, lo, hi) ==
    IF lo >= hi THEN lo
    ELSE LET mid == (lo + hi + 1) \div 2
         IN  IF mid * mid <= n THEN ISqrtIn(n, mid, hi)
             ELSE ISqrtIn(n, lo, mid - 1)

\* floor(sqrt(n)) for 0 <= n < 2^31
ISqrt(n) == ISqrtIn(n, 0, Min2(n, 46340))

\* floor(1000 * a / c) by long division, for 0 <= a and 0 < c
LongDiv1000(a, c) ==
    LET q0 == a \div c
        r0 == a % c
        d1 == (r0 * 10) \div c
        r1 == (r0 * 10) % c
        d2 == (r1 * 10) \div c
        r2 == (r1 * 10) % c
        d3 == (r2 * 10) \div c
    IN  q0 * 1000 + d1 * 100 + d2 * 10 + d3

RECURSIVE InsertSorted(_, _)
InsertSorted(s, x) ==
    IF s = <<>> THEN <<x>>
    ELSE IF x <= Head(s) THEN <<x>> \o s
    ELSE <<Head(s)>> \o InsertSorted(Tail(s), x)

RECURSIVE SortFrom(_, _)
SortFrom(a, i) ==
    IF i > Len(a) THEN <<>> ELSE InsertSorted(SortFrom(a, i + 1), a[i])

Sorted(a) == SortFrom(a, 1)

\* A float: not-a-number, or a fixed-point value.
NaN == [nan |-> TRUE, val |-> 0]

Num(v) == [nan |-> FALSE, val |-> v]

----------------------------------------------------------------------------
(* The random draws of one trial (lines 28-31).  The program never seeds   *)
(* NumPy's global generator, so each draw is a free choice from the        *)
(* distribution's support, here a finite grid of it.                       *)

\* np.random.uniform(low, high), in tenths; the upper end is kept, which
\* rounding can return
Uniform(low, high) == low..high

\* Variant of RandInt that takes high as included.
RandIntInclusive(low, high) == low..high

\* np.random.randint(low, high): low <= x < high
RandInt(low, high) == low..(high - 1)

\* range(n)
Range(n) == 0..(n - 1)

\* np.random.choice(a)
Choice(a) == a

\* np.random.exponential(scale): any time >= 0; in tenths of a second
\* 0, 0.5 (below the cap of the penalty) and 20 (above it)
Exponential(scale) == {0, 5, 200}

\* Every parameter vector one trial can draw.
ParameterSamples ==
    [data_completeness : Uniform(6, 10),
     symptom_clarity : RandInt(1, 6),
     workflow_variation : Choice(Range(8)),
     response_time : Exponential(2)]

\* The draws restricted to the least and the greatest value of each factor.
ExtremeSamples ==
    [data_completeness : Extremes(Uniform(6, 10)),
     symptom_clarity : Extremes(RandInt(1, 6)),
     workflow_variation : Extremes(Choice(Range(8))),
     response_time : Extremes(Exponential(2))]

----------------------------------------------------------------------------
(* The accuracy formula (lines 34-41) *)

\* Variant of Penalty without the cap: response_time/10.
PenaltyUncapped(response_time) == response_time

\* min(response_time/10, 0.1), in hundredths (response_time is in tenths)
Penalty(response_time) == Min2(response_time, 10)

\* Variant of Accuracy that takes symptom_clarity undivided by 5.
AccuracyNoClarityScale(dc, sc, wv, rt) ==
    90 * dc * 5 * sc * (100 - wv) * (100 - Penalty(rt)) * 2

\* accuracy * 100 in millionths of a percent:
\*   0.90 * (dc/10) * (sc/5) * (1 - wv/100) * (1 - pen/100) * 100
\*   = 90 * dc * sc * (100 - wv) * (100 - pen) / 500000  percent
Accuracy(dc, sc, wv, rt) ==
    90 * dc * sc * (100 - wv) * (100 - Penalty(rt)) * 2

\* One pass of the loop body: the five appends of lines 41-45.
Trial(res, s) ==
    [accuracy |->
        Append(res.accuracy,
               Accuracy(s.data_completeness, s.symptom_clarity,
                        s.workflow_variation, s.response_time)),
     response_time |-> Append(res.response_time, s.response_time),
     data_completeness |-> Append(res.data_completeness, s.data_completeness),
     symptom_clarity |-> Append(res.symptom_clarity, s.symptom_clarity),
     workflow_variation |->
        Append(res.workflow_variation, s.workflow_variation)]

\* The loop of line 26 over the draws of its passes, from pass i on.
RECURSIVE RunTrials(_, _, _)
RunTrials(res, draws, i) ==
    IF i > Len(draws) THEN res
    ELSE RunTrials(Trial(res, draws[i]), draws, i + 1)

----------------------------------------------------------------------------
(* NumPy and SciPy as calculate_statistics uses them (lines 53-60).        *)
(* Accuracies are in millionths of a percent; deviations are taken in      *)
(* hundredths of a percent so that their squares fit the integers.         *)

\* sum of the squared deviations from the mean, in (0.01 percent)^2
RECURSIVE SumSqDevFrom(_, _)
SumSqDevFrom(a, i) ==
    IF i > Len(a) THEN 0
    ELSE LET d == (Len(a) * a[i] - Sum(a)) \div (Len(a) * 10000)
         IN  d * d + SumSqDevFrom(a, i + 1)

SumSqDev(a) == SumSqDevFrom(a, 1)

\* np.mean(a): NaN (and a warning) on an empty array
np_mean(a) == IF Len(a) = 0 THEN NaN ELSE Num(Sum(a) \div Len(a))

\* np.std(a), ddof = 0: the population standard deviation
np_std(a) ==
    IF Len(a) = 0 THEN NaN
    ELSE Num(ISqrt(SumSqDev(a) \div Len(a)) * 10000)

\* stats.sem(a), ddof = 1: sqrt(SS / (k - 1)) / sqrt(k); 0/0 = NaN for k <= 1
stats_sem(a) ==
    IF Len(a) <= 1 THEN NaN
    ELSE Num(ISqrt(SumSqDev(a) \div ((Len(a) - 1) * Len(a))) * 10000)

\* stats.norm.interval(0.95, loc, scale) = loc -+ 1.96 * scale; SciPy gives
\* (nan, nan) unless scale > 0
norm_interval(loc, scale) ==
    IF loc.nan \/ scale.nan \/ scale.val <= 0 THEN <<NaN, NaN>>
    ELSE LET margin == (scale.val \div 10000) * 19600
         IN  <<Num(loc.val - margin), Num(loc.val + margin)>>

\* np.percentile(a, q), linear interpolation between order statistics, for
\* a non-empty a in tenths; the result is in thousandths
np_percentile(a, q) ==
    LET s == Sorted(a)
        pos == q * (Len(a) - 1)
        lo == pos \div 100
        hi == Min2(lo + 1, Len(a) - 1)
    IN  Num(100 * s[lo + 1] + (pos % 100) * (s[hi + 1] - s[lo + 1]))

\* The dictionary of lines 54-61.
StatisticsReport(res) ==
    [mean_accuracy |-> np_mean(res.accuracy),
     std_accuracy |-> np_std(res.accuracy),
     ci_95 |-> norm_interval(np_mean(res.accuracy), stats_sem(res.accuracy)),
     percentile_99_response |->
        IF Len(res.response_time) = 0 THEN NaN
        ELSE np_percentile(res.response_time, 99)]

\* What a call of calculate_statistics can give.  On empty lists the mean,
\* the deviation and the interval are NaN, and np.percentile either raises
\* IndexError or gives NaN too, depending on the NumPy release.
StatisticsOutcomes(res) ==
    IF Len(res.response_time) = 0
    THEN {[op |-> "calculate_statistics", raised |-> "IndexError",
           value |-> <<>>],
          [op |-> "calculate_statistics", raised |-> "",
           value |-> StatisticsReport(res)]}
    ELSE {[op |-> "calculate_statistics", raised |-> "",
           value |-> StatisticsReport(res)]}

----------------------------------------------------------------------------
(* np.corrcoef and the normalisation of sensitivity_analysis (lines 68-82) *)

RECURSIVE SumProdFrom(_, _, _)
SumProdFrom(x, y, i) ==
    IF i > Len(x) THEN 0 ELSE x[i] * y[i] + SumProdFrom(x, y, i + 1)

SumProd(x, y) == SumProdFrom(x, y, 1)

\* k * sum(x*y) - sum(x) * sum(y): k^2 times the covariance
ScaledCov(x, y) == Len(x) * SumProd(x, y) - Sum(x) * Sum(y)

\* np.corrcoef(x, y)[0,1] in thousandths: cov / (std x * std y), clipped to
\* [-1, 1]; 0/0 = NaN when either variance is 0 or there are fewer than two
\* entries.  x is a factor's list, taken times 10; y is the accuracy list,
\* taken in tenths of a percent.
np_corrcoef(x, y) ==
    LET xs == [i \in 1..Len(x) |-> 10 * x[i]]
        ys == [i \in 1..Len(y) |-> y[i] \div 100000]
        varx == ScaledCov(xs, xs)
        vary == ScaledCov(ys, ys)
        cov == ScaledCov(xs, ys)
        r == Min2(1000, LongDiv1000(Abs(cov), ISqrt(varx) * ISqrt(vary)))
    IN  IF Len(x) < 2 \/ varx = 0 \/ vary = 0 THEN NaN
        ELSE Num(IF cov < 0 THEN 0 - r ELSE r)

\* The dictionary of lines 68-77.
Correlations(res) == [f \in Factors |-> np_corrcoef(res[f], res.accuracy)]

\* Variant of Total that sums the correlations without abs.
TotalSigned(c) ==
    IF \E f \in Factors : c[f].nan THEN NaN
    ELSE Num(c["data_completeness"].val + c["symptom_clarity"].val
             + c["workflow_variation"].val + c["response_time"].val)

\* sum(abs(val) for val in correlations.values()) (line 80)
Total(c) ==
    IF \E f \in Factors : c[f].nan THEN NaN
    ELSE Num(Abs(c["data_completeness"].val) + Abs(c["symptom_clarity"].val)
             + Abs(c["workflow_variation"].val) + Abs(c["response_time"].val))

\* abs(val)/total * 100 (line 81), the exact fraction num/den; NaN when val
\* or total is NaN, and 0/0 = NaN when total is 0
Contribution(val, total) ==
    IF val.nan \/ total.nan \/ total.val = 0
    THEN [nan |-> TRUE, num |-> 0, den |-> 1]
    ELSE [nan |-> FALSE, num |-> Abs(val.val) * 100, den |-> total.val]

\* The dictionary sensitivity_analysis returns.
SensitivityReport(res) ==
    LET c == Correlations(res)
    IN  [f \in Factors |-> Contribution(c[f], Total(c))]

----------------------------------------------------------------------------
(* The state machine *)

\* A fresh object after __init__, nothing returned yet.
NoReturn == [op |-> "__init__", raised |-> "", value |-> <<>>]

\* simulate_diagnostic_accuracy (lines 21-47): n_iterations passes of the
\* loop, each appending to the five lists of the object, whatever they
\* already hold; returns self.results.  The run is explored while the lists
\* stay within cap entries.
simulate_diagnostic_accuracy(Samples, cap) ==
    /\ Len(results.accuracy) + n_iterations <= cap
    /\ \E draws \in [1..n_iterations -> Samples] :
          /\ results' = RunTrials(results, draws, 1)
          /\ ret' = [op |-> "simulate_diagnostic_accuracy", raised |-> "",
                     value |-> results']
    /\ UNCHANGED <<n_iterations, twin>>

\* The same method on the second object.
twin_simulate_diagnostic_accuracy(Samples, cap) ==
    /\ Len(twin.results.accuracy) + twin.n_iterations <= cap
    /\ \E draws \in [1..twin.n_iterations -> Samples] :
          twin' = [twin EXCEPT !.results = RunTrials(@, draws, 1)]
    /\ UNCHANGED <<n_iterations, results, ret>>

\* Variant of calculate_statistics that sorts the response times in place
\* before taking the percentile.
calculate_statistics_sorting ==
    /\ ret' \in StatisticsOutcomes(results)
    /\ results' = [results EXCEPT !.response_time = Sorted(@)]
    /\ UNCHANGED <<n_iterations, twin>>

\* calculate_statistics (lines 49-61): reads the lists, returns the report.
calculate_statistics ==
    /\ ret' \in StatisticsOutcomes(results)
    /\ UNCHANGED <<n_iterations, results, twin>>

\* sensitivity_analysis (lines 63-82)
sensitivity_analysis ==
    /\ ret' = [op |-> "sensitivity_analysis", raised |-> "",
               value |-> SensitivityReport(results)]
    /\ UNCHANGED <<n_iterations, results, twin>>

\* One object with any trial count up to MaxLen, and a second one like it.
Init ==
    \E n \in 1..MaxLen :
        /\ n_iterations = NewAnalysis(n).n_iterations
        /\ results = NewAnalysis(n).results
        /\ ret = NoReturn
        /\ twin = NewAnalysis(n)

Next ==
    \/ simulate_diagnostic_accuracy(ExtremeSamples, MaxLen)
    \/ calculate_statistics
    \/ sensitivity_analysis

\* Repeated runs, statistics and sensitivity reports of one object, over
\* the extreme values of each factor.
Spec == Init /\ [][Next]_vars

\* One run of one object over every parameter vector.
InitTrial ==
    \E n \in 1..MaxTrialIterations :
        /\ n_iterations = NewAnalysis(n).n_iterations
        /\ results = NewAnalysis(n).results
        /\ ret = NoReturn
        /\ twin = NewAnalysis(n)

NextTrial == simulate_diagnostic_accuracy(ParameterSamples, n_iterations)

SpecTrial == InitTrial /\ [][NextTrial]_vars

\* One run of each of two objects built the same way.
NextPair ==
    \/ simulate_diagnostic_accuracy(ExtremeSamples, n_iterations)
    \/ twin_simulate_diagnostic_accuracy(ExtremeSamples, twin.n_iterations)

SpecPair == InitTrial /\ [][NextPair]_vars

----------------------------------------------------------------------------
(* Properties *)

IsConstant(a) == \A i, j \in 1..Len(a) : a[i] = a[j]

Entries == 1..Len(results.accuracy)

\* C1: once a simulation run has completed, every one of the five result
\* lists has exactly n_iterations entries, whatever calls follow.
C1_LengthIsTrialCount ==
    Len(results.accuracy) > 0 =>
        \A f \in Fields : Len(results[f]) = n_iterations

\* C2: two objects built the same way, each having completed its run with
\* the same trial count, hold identical result lists, entry by entry.
C2_Determinism ==
    (/\ n_iterations = twin.n_iterations
     /\ Len(results.accuracy) = n_iterations
     /\ Len(twin.results.accuracy) = twin.n_iterations)
        => results = twin.results

\* C3: calculate_statistics called on empty result lists fails with the
\* error EmptyResultSet; it returns no report and raises nothing else.
C3_EmptyResultSetError ==
    (ret.op = "calculate_statistics" /\ Len(results.accuracy) = 0)
        => ret.raised = "EmptyResultSet"

PartlyDegenerate(res) ==
    /\ Len(res.accuracy) >= 2
    /\ \E f \in Factors : IsConstant(res[f])
    /\ \E f \in Factors : ~IsConstant(res[f])

\* C4: when some but not all factors are constant over two or more
\* entries, sensitivity_analysis returns a report in which no contribution
\* is NaN, each constant factor contributes 0, and the contributions sum
\* to 100.
C4_PartialDegeneracyRenormalized ==
    (ret.op = "sensitivity_analysis" /\ PartlyDegenerate(results)) =>
        /\ \A f \in Factors : ~ret.value[f].nan
        /\ \A f \in Factors : IsConstant(results[f]) => ret.value[f].num = 0
        /\ \E d \in 1..4000 :
              /\ \A f \in Factors : ret.value[f].den = d
              /\ ret.value["data_completeness"].num
                 + ret.value["symptom_clarity"].num
                 + ret.value["workflow_variation"].num
                 + ret.value["response_time"].num = 100 * d

\* C5: with exactly one entry, calculate_statistics returns a report with
\* std_accuracy = 0 and ci_95 = (mean_accuracy, mean_accuracy), the mean
\* being a number.
C5_SingleEntryInterval ==
    (ret.op = "calculate_statistics" /\ Len(results.accuracy) = 1) =>
        /\ ret.raised = ""
        /\ ret.value.mean_accuracy = Num(results.accuracy[1])
        /\ ret.value.std_accuracy = Num(0)
        /\ ret.value.ci_95
              = <<ret.value.mean_accuracy, ret.value.mean_accuracy>>

IsCapSample(i) ==
    /\ results.data_completeness[i] = 6
    /\ results.symptom_clarity[i] = 1
    /\ results.workflow_variation[i] = 7
    /\ results.response_time[i] = 200

\* C6 as stated: the penalty of every stored response time is at most 0.1,
\* and the entry drawn as data_completeness 0.6, symptom_clarity 1,
\* workflow_variation 7, response_time 20 has accuracy 9.0468.
C6_PenaltyCapAsStated ==
    \A i \in Entries :
        /\ Penalty(results.response_time[i]) <= 10
        /\ IsCapSample(i) => results.accuracy[i] = 9046800

\* C6 as amended: the penalty of every stored response time is at most
\* 0.1, and the entry drawn as data_completeness 0.6, symptom_clarity 1,
\* workflow_variation 7, response_time 20 has accuracy
\* 90 x 0.6 x 0.2 x 0.93 x 0.9 = 9.0396.
C6_PenaltyCap ==
    \A i \in Entries :
        /\ Penalty(results.response_time[i]) <= 10
        /\ IsCapSample(i) => results.accuracy[i] = 9039600

C6_Witness == \E i \in Entries : IsCapSample(i)

\* C7: every stored accuracy lies between 9.0 and 90.0 percent.
C7_AccuracyRange ==
    \A i \in Entries :
        9000000 <= results.accuracy[i] /\ results.accuracy[i] <= 90000000

\* The least accuracy the draws allow, 9.0396, is stored.
C7_Witness == \E i \in Entries : results.accuracy[i] = 9039600

\* C8: every stored entry has data_completeness in [0.6, 1.0],
\* symptom_clarity in 1..5, workflow_variation in 0..7 and
\* response_time >= 0, the five lists being equally long; and every value
\* of 1..5 and of 0..7 is one a trial can draw.
C8_SampleDomain ==
    /\ \A f \in Fields : Len(results[f]) = Len(results.accuracy)
    /\ \A i \in Entries :
          /\ 6 <= results.data_completeness[i]
          /\ results.data_completeness[i] <= 10
          /\ results.symptom_clarity[i] \in 1..5
          /\ results.workflow_variation[i] \in 0..7
          /\ results.response_time[i] >= 0
    /\ \A v \in 1..5 : \E s \in ParameterSamples : s.symptom_clarity = v
    /\ \A v \in 0..7 : \E s \in ParameterSamples : s.workflow_variation = v

\* The greatest value of each discrete factor has been drawn and stored.
C8_Witness ==
    \E i \in Entries :
        results.symptom_clarity[i] = 5 /\ results.workflow_variation[i] = 7

\* Two or more entries, no factor constant, every correlation a number and
\* the sum of their absolute values positive.
NonDegenerate(res) ==
    /\ Len(res.accuracy) >= 2
    /\ \A f \in Factors : ~IsConstant(res[f])
    /\ \A f \in Factors : ~np_corrcoef(res[f], res.accuracy).nan
    /\ \E f \in Factors : np_corrcoef(res[f], res.accuracy).val # 0

\* C9: on non-degenerate result lists, the report of sensitivity_analysis
\* has one entry for each of the four factors, each a number in [0, 100],
\* and the four sum to 100.
C9_SensitivityNormalized ==
    (ret.op = "sensitivity_analysis" /\ NonDegenerate(results)) =>
        /\ DOMAIN ret.value = Factors
        /\ \A f \in Factors :
              /\ ~ret.value[f].nan
              /\ ret.value[f].den > 0
              /\ 0 <= ret.value[f].num
              /\ ret.value[f].num <= 100 * ret.value[f].den
        /\ \A f, g \in Factors : ret.value[f].den = ret.value[g].den
        /\ ret.value["data_completeness"].num
           + ret.value["symptom_clarity"].num
           + ret.value["workflow_variation"].num
           + ret.value["response_time"].num
              = 100 * ret.value["response_time"].den

\* A report on non-degenerate lists whose correlations differ in sign.
C9_Witness ==
    /\ ret.op = "sensitivity_analysis"
    /\ NonDegenerate(results)
    /\ \E f \in Factors : np_corrcoef(results[f], results.accuracy).val < 0
    /\ \E f \in Factors : np_corrcoef(results[f], results.accuracy).val > 0

\* C10: a call of calculate_statistics or of sensitivity_analysis leaves
\* the five result lists and n_iterations as they were, and a call that
\* repeats the previous one on non-empty lists returns the same report.
C10_ReadOnly ==
    [][(calculate_statistics \/ sensitivity_analysis) =>
          /\ UNCHANGED <<n_iterations, results>>
          /\ (ret.op = ret'.op /\ Len(results.accuracy) > 0) => ret' = ret]_vars

\* A report returned on lists whose response times are not in order.
C10_Witness ==
    /\ ret.op \in {"calculate_statistics", "sensitivity_analysis"}
    /\ Len(results.response_time) >= 2
    /\ results.response_time[1] > results.response_time[2]

====
